---- MODULE Spec2Model ----
(***************************************************************************)
(* Model of the jmap-mcp server (main module of the MCP server): the       *)
(* credential parser parseAccounts, the fetch adapter installed by         *)
(* createJAMClient, the per-account initialisation loop of createServer    *)
(* and the start-up sequence of main.                                      *)
(*                                                                         *)
(* Strings are sequences of one-character strings, so that indexOf,        *)
(* substring, split, trim, includes and btoa are computed as JavaScript    *)
(* computes them.                                                          *)
(***************************************************************************)
EXTENDS Bags, FiniteSets, Integers, Sequences, TLC

VARIABLES
    env,          \* the process environment: the three variables the code reads
    serverApiUrl, \* the apiUrl the configured server reports in its session objects
    pc,           \* position of main / createServer
    parsed,       \* completion of the last parseAccounts() call
    accounts,     \* config.accounts of createServer
    idx,          \* position of the for-loop of createServer (1-based)
    fetchLayers,  \* adapters wrapped around the builtin fetch, innermost first
    jam,          \* the JamClient under initialisation and its session promise
    accountMap,   \* the AccountMap, in insertion order
    issued,       \* the last request a client handed to globalThis.fetch
    wire,         \* that request as it reached the builtin fetch (the network)
    answered,     \* the response the builtin fetch gave to that request
    delivered,    \* the response globalThis.fetch returned to the client
    exitCode,     \* argument of Deno.exit, or -1 while the process runs
    served,       \* number of tool calls served so far
    tools,        \* names of the tools registered with the MCP server
    call,         \* the tool call being answered: its arguments and its outcome
    pending,      \* the bag of handlers waiting at an await, when calls overlap
    mailbox,      \* the draft on the mail server that send_draft is called with
    cli           \* the run of the jmapper command line client

vars == <<env, serverApiUrl, pc, parsed, accounts, idx, fetchLayers, jam, accountMap,
          issued, wire, answered, delivered, exitCode, served, tools, call, pending, mailbox, cli>>

(***************************************************************************)
(* Bounds of the model.                                                    *)
(***************************************************************************)
MaxLen == 4        \* length of the exhaustively enumerated environment texts
MaxPad == 22       \* longest run of filler characters inside a long entry
MaxLines == 3      \* lines of a composed multi-account blob in the parser model
MaxAccounts == 2   \* lines of a multi-account blob in the start-up model
MaxCalls == 2      \* tool calls served after start-up
MaxPending == 2    \* handlers that wait at an await at the same time

(***************************************************************************)
(* JavaScript string primitives.                                           *)
(***************************************************************************)
\* the value of Deno.env.get for a variable that is not set
Undefined == <<"undefined">>

\* truthiness of a string-or-undefined value: undefined and "" are falsy
Truthy(s) == s # Undefined /\ s # <<>>

\* the characters String.prototype.trim removes
IsWhitespace(c) == c \in {" ", "\n", "\t", "\r"}

\* String.prototype.indexOf for a one-character needle: 0-based, -1 if absent
IndexOf(s, c) ==
    IF \E i \in 1..Len(s) : s[i] = c
    THEN (CHOOSE i \in 1..Len(s) : s[i] = c /\ \A j \in 1..(i - 1) : s[j] # c) - 1
    ELSE -1

\* String.prototype.substring(from, to) for 0 <= from: `to` is clamped
Substring(s, from, to) ==
    LET hi == IF to > Len(s) THEN Len(s) ELSE to
    IN  IF from >= hi THEN <<>> ELSE SubSeq(s, from + 1, hi)

\* String.prototype.trim
Trim(s) ==
    LET keep == {i \in 1..Len(s) : ~IsWhitespace(s[i])}
    IN  IF keep = {} THEN <<>>
        ELSE LET lo == CHOOSE i \in keep : \A j \in keep : i <= j
                 hi == CHOOSE i \in keep : \A j \in keep : j <= i
             IN  SubSeq(s, lo, hi)

\* String.prototype.split for a one-character separator
RECURSIVE Split(_, _)
Split(s, sep) ==
    LET k == IndexOf(s, sep)
    IN  IF k = -1 THEN <<s>>
        ELSE <<SubSeq(s, 1, k)>> \o Split(SubSeq(s, k + 2, Len(s)), sep)

\* String.prototype.split(sep, limit): the first `limit` pieces of the split
SplitLimit(s, sep, limit) ==
    LET all == Split(s, sep)
    IN  IF Len(all) <= limit THEN all ELSE SubSeq(all, 1, limit)

\* String.prototype.includes for a string needle
Includes(s, sub) ==
    \E i \in 0..(Len(s) - Len(sub)) : SubSeq(s, i + 1, i + Len(sub)) = sub

\* Array.prototype.filter(Boolean) on an array of strings
RECURSIVE FilterNonEmpty(_)
FilterNonEmpty(ss) ==
    IF ss = <<>> THEN <<>>
    ELSE (IF Head(ss) = <<>> THEN <<>> ELSE <<Head(ss)>>) \o FilterNonEmpty(Tail(ss))

(***************************************************************************)
(* parseAccounts.                                                          *)
(***************************************************************************)
\* number of characters of a rejected entry quoted in the format error
PreviewLen == 20

NoError == [text |-> "", got |-> <<>>]

Return(v) == [threw |-> FALSE, error |-> NoError, value |-> v]

Throw(text, got) == [threw |-> TRUE, error |-> [text |-> text, got |-> got], value |-> <<>>]

\* Tokens without the trim of each entry
TokensUntrimmed(bearerTokens) == FilterNonEmpty(Split(bearerTokens, "\n"))

\* tokens = bearerTokens.split("\n").map((t) => t.trim()).filter(Boolean)
Tokens(bearerTokens) ==
    LET lines == Split(bearerTokens, "\n")
    IN  FilterNonEmpty([i \in 1..Len(lines) |-> Trim(lines[i])])

\* ParseToken quoting the whole rejected entry
ParseTokenQuotingAll(token) ==
    LET colonIndex == IndexOf(token, ":")
        name == Substring(token, 0, colonIndex)
    IN  IF colonIndex = -1
        THEN Throw("invalid token format, expected \"username:password\", got: ", token)
        ELSE IF name = <<>>
        THEN Throw("account name cannot be empty", <<>>)
        ELSE Return(<<[name |-> name, bearerToken |-> token]>>)

\* the callback of tokens.map: one entry of the multi-account form
ParseToken(token) ==
    LET colonIndex == IndexOf(token, ":")
        name == Substring(token, 0, colonIndex)
    IN  IF colonIndex = -1
        THEN Throw("invalid token format, expected \"username:password\", got: ",
                   Substring(token, 0, PreviewLen))
        ELSE IF name = <<>>
        THEN Throw("account name cannot be empty", <<>>)
        ELSE Return(<<[name |-> name, bearerToken |-> token]>>)

\* tokens.map(callback): the first entry whose callback throws ends the call
RECURSIVE MapTokens(_)
MapTokens(tokens) ==
    IF tokens = <<>> THEN Return(<<>>)
    ELSE LET first == ParseToken(Head(tokens))
         IN  IF first.threw THEN first
             ELSE LET rest == MapTokens(Tail(tokens))
                  IN  IF rest.threw THEN rest
                      ELSE Return(first.value \o rest.value)

\* the single-account form naming every account by the sentinel
ParseSingleAlwaysDefault(bearerToken) ==
    IF ~Truthy(bearerToken)
    THEN Throw("missing required environment variables: JMAP_BEARER_TOKEN or JMAP_BEARER_TOKENS",
               <<>>)
    ELSE Return(<<[name |-> <<"d", "e", "f", "a", "u", "l", "t">>, bearerToken |-> bearerToken]>>)

\* the fallback of parseAccounts: the single-account form
ParseSingle(bearerToken) ==
    IF ~Truthy(bearerToken)
    THEN Throw("missing required environment variables: JMAP_BEARER_TOKEN or JMAP_BEARER_TOKENS",
               <<>>)
    ELSE LET colonIndex == IndexOf(bearerToken, ":")
             name == IF colonIndex # -1 THEN Substring(bearerToken, 0, colonIndex)
                     ELSE <<"d", "e", "f", "a", "u", "l", "t">>
         IN  Return(<<[name |-> name, bearerToken |-> bearerToken]>>)

parseAccounts(e) ==
    IF Truthy(e.JMAP_BEARER_TOKENS)
    THEN MapTokens(Tokens(e.JMAP_BEARER_TOKENS))
    ELSE ParseSingle(e.JMAP_BEARER_TOKEN)

(***************************************************************************)
(* btoa: base64 of a string of Latin-1 characters.                         *)
(***************************************************************************)
\* String.prototype.charCodeAt for the characters the model uses
CharCode(c) ==
    CASE c = "\t" -> 9   [] c = "\n" -> 10  [] c = "\r" -> 13  [] c = " " -> 32
      [] c = ":" -> 58   [] c = "a" -> 97   [] c = "b" -> 98   [] c = "k" -> 107
      [] c = "p" -> 112  [] c = "q" -> 113  [] c = "t" -> 116  [] c = "x" -> 120

Base64Alphabet ==
    <<"A", "B", "C", "D", "E", "F", "G", "H", "I", "J", "K", "L", "M", "N", "O", "P",
      "Q", "R", "S", "T", "U", "V", "W", "X", "Y", "Z", "a", "b", "c", "d", "e", "f",
      "g", "h", "i", "j", "k", "l", "m", "n", "o", "p", "q", "r", "s", "t", "u", "v",
      "w", "x", "y", "z", "0", "1", "2", "3", "4", "5", "6", "7", "8", "9", "+", "/">>

Sextet(n) == Base64Alphabet[n + 1]

RECURSIVE Btoa(_)
Btoa(s) ==
    IF Len(s) = 0 THEN <<>>
    ELSE LET b1 == CharCode(s[1])
         IN  IF Len(s) = 1
             THEN <<Sextet(b1 \div 4), Sextet((b1 % 4) * 16), "=", "=">>
             ELSE LET b2 == CharCode(s[2])
                  IN  IF Len(s) = 2
                      THEN <<Sextet(b1 \div 4), Sextet((b1 % 4) * 16 + b2 \div 16),
                             Sextet((b2 % 16) * 4), "=">>
                      ELSE LET b3 == CharCode(s[3])
                           IN  <<Sextet(b1 \div 4), Sextet((b1 % 4) * 16 + b2 \div 16),
                                 Sextet((b2 % 16) * 4 + b3 \div 64), Sextet(b3 % 64)>>
                               \o Btoa(SubSeq(s, 4, Len(s)))

(***************************************************************************)
(* URLs and HTTP messages.                                                 *)
(***************************************************************************)
SchemeHttps == <<"h", "t", "t", "p", "s", ":", "/", "/">>
SchemeHttp == <<"h", "t", "t", "p", ":", "/", "/">>
KeywordJmap == <<"j", "m", "a", "p">>
KeywordSession == <<"s", "e", "s", "s", "i", "o", "n">>
WellKnownJmap == <<".", "w", "e", "l", "l", "-", "k", "n", "o", "w", "n", "/", "j", "m", "a", "p">>
Port8080 == <<":", "8", "0", "8", "0">>

\* the index (1-based) of the first occurrence of sub in s, 0 if there is none
Find(s, sub) ==
    LET hits == {i \in 1..(Len(s) - Len(sub) + 1) : SubSeq(s, i, i + Len(sub) - 1) = sub}
    IN  IF hits = {} THEN 0 ELSE CHOOSE i \in hits : \A j \in hits : i <= j

\* String.prototype.replace(pattern, replacement) for a string pattern: the
\* first occurrence only
Replace(s, pat, rep) ==
    LET k == Find(s, pat)
    IN  IF k = 0 THEN s
        ELSE SubSeq(s, 1, k - 1) \o rep \o SubSeq(s, k + Len(pat), Len(s))

\* z.string().url(): the text parses as an absolute URL
IsUrl(s) ==
    \/ Len(s) > Len(SchemeHttps) /\ SubSeq(s, 1, Len(SchemeHttps)) = SchemeHttps
    \/ Len(s) > Len(SchemeHttp) /\ SubSeq(s, 1, Len(SchemeHttp)) = SchemeHttp

\* new URL(url).hostname: the authority without its port
Hostname(url) ==
    LET start == Find(url, <<":", "/", "/">>) + 3
        rest == SubSeq(url, start, Len(url))
        stop == {i \in 1..Len(rest) : rest[i] \in {"/", "?", "#", ":"}}
        end == IF stop = {} THEN Len(rest)
               ELSE (CHOOSE i \in stop : \A j \in stop : i <= j) - 1
    IN  SubSeq(rest, 1, end)

NoHeader == [scheme |-> "none", credentials |-> <<>>]
Bearer(token) == [scheme |-> "Bearer", credentials |-> token]
Basic(credentials) == [scheme |-> "Basic", credentials |-> credentials]

(***************************************************************************)
(* The fetch adapter of createJAMClient.  A layer is the closure of one    *)
(* installed adapter: the username and password it captured and the        *)
(* session URL of its configuration; the fetch it captured as              *)
(* originalFetch is the layer below it (the builtin fetch below layer 1).  *)
(***************************************************************************)
\* const [username, password] = config.bearerToken.split(":", 2)
Layer(config) ==
    LET parts == SplitLimit(config.bearerToken, ":", 2)
    IN  [username |-> parts[1], password |-> parts[2], sessionUrl |-> config.sessionUrl]

\* an adapter that treats every request as a request to the server
MatchesAlways(url, layer) == TRUE

\* url.includes("jmap") || url.includes(new URL(config.sessionUrl).hostname)
Matches(url, layer) ==
    \/ Includes(url, KeywordJmap)
    \/ Includes(url, Hostname(layer.sessionUrl))

\* the headers one adapter hands to its originalFetch for a matching request
RewriteHeader(layer, authorization) ==
    IF authorization # NoHeader
    THEN Basic(Btoa(layer.username \o <<":">> \o layer.password))
    ELSE authorization

\* the request one adapter hands to its originalFetch
AdapterRequest(layer, req) ==
    IF Matches(req.url, layer)
    THEN [req EXCEPT !.authorization = RewriteHeader(layer, req.authorization)]
    ELSE req

\* json.apiUrl && json.apiUrl.includes("http://") && json.apiUrl.includes(":8080")
NeedsRepair(apiUrl) ==
    /\ Truthy(apiUrl)
    /\ Includes(apiUrl, SchemeHttp)
    /\ Includes(apiUrl, Port8080)

\* json.apiUrl.replace("http://", "https://").replace(":8080", "")
RepairApiUrl(apiUrl) == Replace(Replace(apiUrl, SchemeHttp, SchemeHttps), Port8080, <<>>)

\* what one adapter returns for the response its originalFetch gave it
AdapterResponse(layer, url, resp) ==
    IF /\ Matches(url, layer)
       /\ ~resp.failed
       /\ Includes(url, KeywordSession) \/ Includes(url, WellKnownJmap)
       /\ resp.json
       /\ NeedsRepair(resp.body.apiUrl)
    THEN [resp EXCEPT !.body.apiUrl = RepairApiUrl(resp.body.apiUrl), !.rebuilt = TRUE]
    ELSE resp

\* the adapters acting on the request in the order they were installed, so
\* that the adapter installed last rewrites the header last
RECURSIVE OutboundLastWins(_, _, _)
OutboundLastWins(layers, n, req) ==
    IF n = 0 THEN req
    ELSE AdapterRequest(layers[n], OutboundLastWins(layers, n - 1, req))

\* the request that reaches the builtin fetch when globalThis.fetch is called
\* with n adapters installed: the outermost adapter acts first
RECURSIVE Outbound(_, _, _)
Outbound(layers, n, req) ==
    IF n = 0 THEN req ELSE Outbound(layers, n - 1, AdapterRequest(layers[n], req))

\* the response globalThis.fetch resolves to: the innermost adapter acts first
RECURSIVE Inbound(_, _, _, _)
Inbound(layers, n, url, resp) ==
    IF n = 0 THEN resp ELSE AdapterResponse(layers[n], url, Inbound(layers, n - 1, url, resp))

(***************************************************************************)
(* Session descriptors and the AccountMap.                                 *)
(***************************************************************************)
CapMail == "urn:ietf:params:jmap:mail"
CapSubmission == "urn:ietf:params:jmap:submission"

\* an account id that is undefined
NoId == "undefined"

NoBody == [apiUrl |-> Undefined, capabilities |-> {}, accounts |-> {}, primaryAccount |-> NoId]

NoResponse == [failed |-> FALSE, json |-> FALSE, body |-> NoBody, rebuilt |-> FALSE]

NoRequest == [url |-> <<>>, authorization |-> NoHeader, client |-> 0]

NoClient == [client |-> 0, bearerToken |-> <<>>, session |-> NoBody]

\* session.accounts[accountId]: the set of descriptors stored under that id
AccountsAt(session, accountId) == {a \in session.accounts : a.id = accountId}

\* Map.prototype.set: an existing key keeps its position
MapSet(m, info) ==
    IF \E i \in 1..Len(m) : m[i].name = info.name
    THEN [i \in 1..Len(m) |-> IF m[i].name = info.name THEN info ELSE m[i]]
    ELSE Append(m, info)

\* the mail-capability test of createServer
SupportsMailAlways(session) == TRUE

\* "urn:ietf:params:jmap:mail" in session.capabilities
SupportsMail(session) == CapMail \in session.capabilities

\* hasSubmission derived from the server capability alone
HasSubmissionIgnoringReadOnly(capabilities, account) == CapSubmission \in capabilities

\* hasSubmission of createServer
HasSubmission(capabilities, account) ==
    CapSubmission \in capabilities /\ ~account.isReadOnly

(***************************************************************************)
(* Inputs of the start-up model.                                           *)
(***************************************************************************)
HostMail == <<"m", "x">>
HostOther == <<"c", "d", "n">>

UrlWellKnown == SchemeHttps \o HostMail \o <<"/">> \o WellKnownJmap
UrlPlain == SchemeHttps \o HostMail \o <<"/", "s">>

ApiSecure == SchemeHttps \o HostMail \o <<"/", "a", "p", "i">>
ApiInsecure == SchemeHttp \o HostMail \o Port8080 \o <<"/", "a", "p", "i">>
ApiForeign == SchemeHttps \o HostOther \o <<"/", "a", "p", "i">>
ApiForeignKeyword == SchemeHttps \o HostOther \o <<"/">> \o KeywordJmap
ApiForeignQuery == SchemeHttps \o HostOther \o <<"/", "?", "h", "=">> \o HostMail

SessionUrls == {Undefined, HostMail, UrlWellKnown, UrlPlain}

ApiUrls == {ApiSecure, ApiInsecure, ApiForeign, ApiForeignKeyword, ApiForeignQuery}

EntryA == <<"a", ":", "p">>
EntryB == <<"b", ":", "q", ":", "t">>
EntryOpaque == <<"k">>
EntryNoName == <<":", "p">>

RECURSIVE JoinLines(_)
JoinLines(es) ==
    IF Len(es) = 0 THEN <<>>
    ELSE IF Len(es) = 1 THEN es[1]
    ELSE es[1] \o <<"\n">> \o JoinLines(Tail(es))

\* an account id given in JMAP_ACCOUNT_ID, other than the primary one
OverrideId == <<"u", "2">>

EntryLists == UNION {[1..n -> {EntryA, EntryB}] : n \in 1..MaxAccounts}

StartupBlobs ==
    {JoinLines(es) : es \in EntryLists}
        \cup {<<"\n">>, EntryOpaque, EntryNoName, EntryA \o <<"\n">> \o EntryOpaque}

StartupEnvs ==
    {[JMAP_SESSION_URL |-> u, JMAP_BEARER_TOKENS |-> b, JMAP_BEARER_TOKEN |-> Undefined,
      JMAP_ACCOUNT_ID |-> Undefined] :
        u \in SessionUrls, b \in StartupBlobs}
    \cup
    {[JMAP_SESSION_URL |-> u, JMAP_BEARER_TOKENS |-> Undefined, JMAP_BEARER_TOKEN |-> t,
      JMAP_ACCOUNT_ID |-> Undefined] :
        u \in SessionUrls, t \in {Undefined, EntryOpaque, EntryA, EntryB, EntryNoName}}
    \cup
    {[JMAP_SESSION_URL |-> UrlPlain, JMAP_BEARER_TOKENS |-> Undefined,
      JMAP_BEARER_TOKEN |-> EntryA, JMAP_ACCOUNT_ID |-> OverrideId]}

SessionBodies ==
    [apiUrl : {serverApiUrl},
     capabilities : SUBSET {CapMail, CapSubmission},
     accounts : {{}, {[id |-> "u1", isReadOnly |-> FALSE]}, {[id |-> "u1", isReadOnly |-> TRUE]}},
     primaryAccount : {"u1", NoId}]

\* what the network may answer to a session request
SessionResponses ==
    {[failed |-> TRUE, json |-> FALSE, body |-> NoBody, rebuilt |-> FALSE],
     [failed |-> FALSE, json |-> FALSE, body |-> NoBody, rebuilt |-> FALSE]}
    \cup {[failed |-> FALSE, json |-> TRUE, body |-> b, rebuilt |-> FALSE] : b \in SessionBodies}

\* what the network may answer to an API request of a tool
ApiResponses ==
    {[failed |-> TRUE, json |-> FALSE, body |-> NoBody, rebuilt |-> FALSE],
     [failed |-> FALSE, json |-> FALSE, body |-> NoBody, rebuilt |-> FALSE]}
    \cup {[failed |-> FALSE, json |-> TRUE, body |-> [NoBody EXCEPT !.apiUrl = u],
           rebuilt |-> FALSE] : u \in {Undefined, ApiInsecure}}

(***************************************************************************)
(* getAccount of the tool modules.                                         *)
(***************************************************************************)
NoAccount == [name |-> <<>>, jam |-> NoClient, accountId |-> NoId,
              isReadOnly |-> FALSE, hasSubmission |-> FALSE]

Keys(m) == [i \in 1..Len(m) |-> m[i].name]

\* getAccount resolving an omitted name to the last session of the registry
getAccountDefaultLast(m, requestedAccount) ==
    IF Truthy(requestedAccount)
    THEN IF \E i \in 1..Len(m) : m[i].name = requestedAccount
         THEN [threw |-> FALSE, error |-> NoError,
               value |-> m[CHOOSE i \in 1..Len(m) : m[i].name = requestedAccount]]
         ELSE [threw |-> TRUE,
               error |-> [text |-> "account not found. available accounts: ", got |-> Keys(m)],
               value |-> NoAccount]
    ELSE IF m = <<>>
         THEN [threw |-> TRUE, error |-> [text |-> "no accounts configured", got |-> <<>>],
               value |-> NoAccount]
         ELSE [threw |-> FALSE, error |-> NoError, value |-> m[Len(m)]]

getAccount(m, requestedAccount) ==
    IF Truthy(requestedAccount)
    THEN IF \E i \in 1..Len(m) : m[i].name = requestedAccount
         THEN [threw |-> FALSE, error |-> NoError,
               value |-> m[CHOOSE i \in 1..Len(m) : m[i].name = requestedAccount]]
         ELSE [threw |-> TRUE,
               error |-> [text |-> "account not found. available accounts: ", got |-> Keys(m)],
               value |-> NoAccount]
    ELSE IF m = <<>>
         THEN [threw |-> TRUE, error |-> [text |-> "no accounts configured", got |-> <<>>],
               value |-> NoAccount]
         ELSE [threw |-> FALSE, error |-> NoError, value |-> m[1]]

(***************************************************************************)
(* The tools: their registration and the common shape of their handlers.   *)
(***************************************************************************)
ReadTools == {"search_emails", "get_mailboxes", "get_emails", "get_threads",
              "get_identities", "get_inbox_summary"}
WriteTools == {"mark_emails", "move_emails", "delete_emails"}
DraftTools == {"create_draft", "update_draft"}
SendTools == {"send_email", "reply_to_email", "send_draft"}

\* a write-access test that every registry passes
HasAnyWriteAccessAlways(m) == TRUE

\* hasAnyWriteAccess of registerEmailTools
HasAnyWriteAccess(m) == \E i \in 1..Len(m) : ~m[i].isReadOnly

\* hasAnySubmission of createServer
HasAnySubmission(m) == \E i \in 1..Len(m) : m[i].hasSubmission

\* the tools registerEmailTools(server, accountMap) registers
registerEmailTools(m) ==
    ReadTools \cup {"list_accounts"} \cup (IF HasAnyWriteAccess(m) THEN WriteTools ELSE {})

\* the tools registerEmailSubmissionTools(server, accountMap) registers
registerEmailSubmissionTools(m) == SendTools \cup DraftTools

\* the draft as it is stored: marked $draft, with no submission
DraftStored == [draft |-> TRUE, submitted |-> FALSE]

\* no tool call is being answered
NoCall == [tool |-> "none", requested |-> Undefined, error |-> NoError, session |-> 0,
           methods |-> <<>>, result |-> <<>>]

\* the account names a tool call may pass: none, the empty string, the names
\* of the configured accounts and a name that is not configured
Requested == {Undefined, <<>>, <<"a">>, <<"b">>, <<"z">>}

\* the JMAP methods a handler calls, in order (identityId and fetchDetails
\* omitted from the arguments)
Plan(tool) ==
    CASE tool = "search_emails" -> <<"Email/query">>
      [] tool \in WriteTools -> <<"Email/set">>
      [] tool = "update_draft" -> <<"Email/set">>
      [] tool = "create_draft" -> <<"Mailbox/get", "Email/set">>
      [] tool = "send_email" -> <<"Mailbox/get", "Email/set", "EmailSubmission/set">>
      [] tool = "reply_to_email" ->
             <<"Email/get", "Mailbox/get", "Email/set", "EmailSubmission/set">>
      [] tool = "send_draft" -> <<"Email/set", "EmailSubmission/set">>

\* a capability test that lets every account through
PermissionAlways(tool, account) == NoError

\* the capability test at the head of a handler: the error it throws, if any
Permission(tool, account) ==
    IF tool \in WriteTools \cup DraftTools /\ account.isReadOnly
    THEN [text |-> "account is read-only", got |-> account.name]
    ELSE IF tool \in SendTools /\ ~account.hasSubmission
    THEN [text |-> "account does not support email submission", got |-> account.name]
    ELSE NoError

\* the handlers that need textBody or htmlBody
RequiresBody(tool) == tool \in {"send_email", "reply_to_email", "create_draft"}

\* after this method the handler goes on only if the response carries the
\* object it asked for; a failed or unreadable response always ends it
Stops(method, resp) ==
    resp.failed \/ ~resp.json \/ method \in {"Email/get", "Email/set"}

ProtocolError == [text |-> "protocol", got |-> <<>>]

\* one run of a handler, whose try block is left at the first error: the
\* account is resolved, the capability and the arguments are tested, then the
\* first n methods of the plan are called, resp answering the last of them
Handle(tool, requested, hasBody, n, resp) ==
    LET got == getAccount(accountMap, requested)
        account == got.value
        client == account.jam
        refused == IF got.threw THEN got.error
                   ELSE IF Permission(tool, account) # NoError
                   THEN Permission(tool, account)
                   ELSE IF RequiresBody(tool) /\ ~hasBody
                   THEN [text |-> "either textBody or htmlBody must be provided",
                         got |-> <<>>]
                   ELSE IF ~Truthy(client.session.apiUrl) THEN ProtocolError
                   ELSE NoError
        req == [url |-> client.session.apiUrl,
                authorization |-> Bearer(client.bearerToken),
                client |-> client.client]
        back == Inbound(fetchLayers, Len(fetchLayers), req.url, resp)
    IN  IF refused # NoError
        THEN /\ call' = [tool |-> tool, requested |-> requested, error |-> refused,
                         session |-> 0, methods |-> <<>>, result |-> <<>>]
             /\ UNCHANGED <<issued, wire, answered, delivered>>
        ELSE /\ n < Len(Plan(tool)) => Stops(Plan(tool)[n], back)
             /\ issued' = req
             /\ wire' = Outbound(fetchLayers, Len(fetchLayers), req)
             /\ answered' = resp
             /\ delivered' = back
             /\ call' = [tool |-> tool, requested |-> requested,
                         error |-> IF n < Len(Plan(tool)) \/ back.failed \/ ~back.json
                                   THEN ProtocolError ELSE NoError,
                         session |-> client.client,
                         methods |-> SubSeq(Plan(tool), 1, n),
                         result |-> <<>>]

\* list_accounts answering with the sessions in reverse order
ListAllReversed(m) ==
    [i \in 1..Len(m) |-> [name |-> m[Len(m) + 1 - i].name,
                          isReadOnly |-> m[Len(m) + 1 - i].isReadOnly,
                          hasSubmission |-> m[Len(m) + 1 - i].hasSubmission]]

\* what list_accounts returns: one entry per session of the registry
ListAll(m) ==
    [i \in 1..Len(m) |-> [name |-> m[i].name, isReadOnly |-> m[i].isReadOnly,
                          hasSubmission |-> m[i].hasSubmission]]

(***************************************************************************)
(* main and createServer.                                                  *)
(***************************************************************************)
\* an error that is swallowed: start-up goes on to build the server
ExitContinuing(code) == pc' = "build" /\ exitCode' = exitCode

\* Deno.exit(code) in the catch block of main
Exit(code) == pc' = "exited" /\ exitCode' = code

\* the command line client, not started
NoCli == [pc |-> "off", args |-> <<>>, account |-> Undefined, cmd |-> Undefined,
          accounts |-> <<>>, acct |-> 0, error |-> NoError]

Init ==
    /\ env \in StartupEnvs
    /\ serverApiUrl \in ApiUrls
    /\ pc = "start"
    /\ parsed = Return(<<>>)
    /\ accounts = <<>>
    /\ idx = 0
    /\ fetchLayers = <<>>
    /\ jam = NoClient
    /\ accountMap = <<>>
    /\ issued = NoRequest
    /\ wire = NoRequest
    /\ answered = NoResponse
    /\ delivered = NoResponse
    /\ exitCode = -1
    /\ served = 0
    /\ tools = {}
    /\ call = NoCall
    /\ pending = EmptyBag
    /\ mailbox = DraftStored
    /\ cli = NoCli

\* getJMAPConfig, called first by createServer
GetJMAPConfig ==
    /\ pc = "start"
    /\ IF ~Truthy(env.JMAP_SESSION_URL)
       THEN /\ Exit(1)
            /\ UNCHANGED <<parsed, accounts, idx>>
       ELSE /\ parsed' = parseAccounts(env)
            /\ IF parsed'.threw \/ ~IsUrl(env.JMAP_SESSION_URL)
               THEN Exit(1) /\ UNCHANGED <<accounts, idx>>
               ELSE /\ accounts' = parsed'.value
                    /\ idx' = 1
                    /\ pc' = IF parsed'.value = <<>> THEN "build" ELSE "client"
                    /\ UNCHANGED exitCode
    /\ UNCHANGED <<env, serverApiUrl, fetchLayers, jam, accountMap, issued, wire, answered,
                   delivered, served, tools, call, pending, mailbox, cli>>

\* createJAMClient putting its adapter in the place of the one installed
\* before
CreateJAMClientReplacing ==
    /\ pc = "client"
    /\ LET config == [sessionUrl |-> env.JMAP_SESSION_URL,
                      bearerToken |-> accounts[idx].bearerToken]
           hasBasicAuth == Includes(config.bearerToken, <<":">>)
           layers == IF hasBasicAuth THEN <<Layer(config)>> ELSE fetchLayers
           token == IF hasBasicAuth THEN Layer(config).password ELSE config.bearerToken
           req == [url |-> config.sessionUrl, authorization |-> Bearer(token), client |-> idx]
       IN  /\ fetchLayers' = layers
           /\ jam' = [client |-> idx, bearerToken |-> token, session |-> NoBody]
           /\ issued' = req
           /\ wire' = Outbound(layers, Len(layers), req)
    /\ pc' = "session"
    /\ answered' = NoResponse
    /\ delivered' = NoResponse
    /\ UNCHANGED <<env, serverApiUrl, parsed, accounts, idx, accountMap, exitCode, served,
                   tools, call, pending, mailbox, cli>>

\* createJAMClient installing an adapter whatever the secret looks like
CreateJAMClientAlwaysAdapting ==
    /\ pc = "client"
    /\ LET config == [sessionUrl |-> env.JMAP_SESSION_URL,
                      bearerToken |-> accounts[idx].bearerToken]
           hasBasicAuth == Includes(config.bearerToken, <<":">>)
           layer == IF hasBasicAuth THEN Layer(config)
                    ELSE [username |-> config.bearerToken, password |-> <<>>,
                          sessionUrl |-> config.sessionUrl]
           layers == Append(fetchLayers, layer)
           req == [url |-> config.sessionUrl, authorization |-> Bearer(layer.password),
                   client |-> idx]
       IN  /\ fetchLayers' = layers
           /\ jam' = [client |-> idx, bearerToken |-> layer.password, session |-> NoBody]
           /\ issued' = req
           /\ wire' = Outbound(layers, Len(layers), req)
    /\ pc' = "session"
    /\ answered' = NoResponse
    /\ delivered' = NoResponse
    /\ UNCHANGED <<env, serverApiUrl, parsed, accounts, idx, accountMap, exitCode, served,
                   tools, call, pending, mailbox, cli>>

\* createJAMClient for accounts[idx]: the adapter is installed, then the
\* JamClient is constructed and requests its session through globalThis.fetch
CreateJAMClient ==
    /\ pc = "client"
    /\ LET config == [sessionUrl |-> env.JMAP_SESSION_URL,
                      bearerToken |-> accounts[idx].bearerToken]
           hasBasicAuth == Includes(config.bearerToken, <<":">>)
           layers == IF hasBasicAuth THEN Append(fetchLayers, Layer(config)) ELSE fetchLayers
           token == IF hasBasicAuth THEN Layer(config).password ELSE config.bearerToken
           req == [url |-> config.sessionUrl, authorization |-> Bearer(token), client |-> idx]
       IN  /\ fetchLayers' = layers
           /\ jam' = [client |-> idx, bearerToken |-> token, session |-> NoBody]
           /\ issued' = req
           /\ wire' = Outbound(layers, Len(layers), req)
    /\ pc' = "session"
    /\ answered' = NoResponse
    /\ delivered' = NoResponse
    /\ UNCHANGED <<env, serverApiUrl, parsed, accounts, idx, accountMap, exitCode, served, tools, call, pending, mailbox, cli>>

\* await jam.getPrimaryAccount() / await jam.session: the session request settles
OpenSession ==
    /\ pc = "session"
    /\ \E resp \in SessionResponses :
         /\ answered' = resp
         /\ delivered' = Inbound(fetchLayers, Len(fetchLayers), env.JMAP_SESSION_URL, resp)
         /\ IF delivered'.failed \/ ~delivered'.json
            THEN Exit(1) /\ UNCHANGED jam
            ELSE /\ jam' = [jam EXCEPT !.session = delivered'.body]
                 /\ pc' = "classify"
                 /\ UNCHANGED exitCode
    /\ UNCHANGED <<env, serverApiUrl, parsed, accounts, idx, fetchLayers, accountMap, issued,
                   wire, served, tools, call, pending, mailbox, cli>>

\* accountConfig.accountId: undefined when the configuration has no such
\* property
AccountIdOf(accountConfig) ==
    IF "accountId" \in DOMAIN accountConfig THEN accountConfig.accountId ELSE NoId

\* accountConfig.accountId || await jam.getPrimaryAccount()
ResolveAccountId(accountConfig, session) ==
    IF AccountIdOf(accountConfig) \notin {NoId, ""}
    THEN AccountIdOf(accountConfig)
    ELSE session.primaryAccount

\* the loop body going on to the next account without storing this one
RegisterOutOfTurn ==
    /\ pc = "classify"
    /\ IF ~SupportsMail(jam.session)
          \/ AccountsAt(jam.session, ResolveAccountId(accounts[idx], jam.session)) = {}
       THEN Exit(1) /\ UNCHANGED <<idx, accountMap>>
       ELSE /\ idx' = idx + 1
            /\ pc' = IF idx + 1 > Len(accounts) THEN "build" ELSE "client"
            /\ accountMap' = IF idx + 1 > Len(accounts)
                              THEN [i \in 1..Len(accounts) |->
                                      [name |-> accounts[i].name, jam |-> jam,
                                       accountId |-> jam.session.primaryAccount,
                                       isReadOnly |-> FALSE, hasSubmission |-> FALSE]]
                              ELSE accountMap
            /\ UNCHANGED exitCode
    /\ UNCHANGED <<env, serverApiUrl, parsed, accounts, fetchLayers, jam, issued, wire,
                   answered, delivered, served, tools, call, pending, mailbox, cli>>

\* the loop body storing a session although the server lists no such account
RegisterLenient ==
    /\ pc = "classify"
    /\ IF ~SupportsMail(jam.session)
       THEN Exit(1) /\ UNCHANGED <<idx, accountMap>>
       ELSE /\ accountMap' = MapSet(accountMap,
                   [name |-> accounts[idx].name, jam |-> jam,
                    accountId |-> ResolveAccountId(accounts[idx], jam.session),
                    isReadOnly |-> \E a \in jam.session.accounts : a.isReadOnly,
                    hasSubmission |-> FALSE])
            /\ idx' = idx + 1
            /\ pc' = IF idx + 1 > Len(accounts) THEN "build" ELSE "client"
            /\ UNCHANGED exitCode
    /\ UNCHANGED <<env, serverApiUrl, parsed, accounts, fetchLayers, jam, issued, wire,
                   answered, delivered, served, tools, call, pending, mailbox, cli>>

\* the rest of the loop body of createServer: the account is classified and
\* stored in the AccountMap, or an error is thrown
Register ==
    /\ pc = "classify"
    /\ LET session == jam.session
           accountId == ResolveAccountId(accounts[idx], session)
           found == AccountsAt(session, accountId)
       IN  IF ~SupportsMail(session) \/ found = {}
           THEN Exit(1) /\ UNCHANGED <<idx, accountMap>>
           ELSE LET account == CHOOSE a \in found : TRUE
                IN  /\ accountMap' = MapSet(accountMap,
                           [name |-> accounts[idx].name,
                            jam |-> jam,
                            accountId |-> accountId,
                            isReadOnly |-> account.isReadOnly,
                            hasSubmission |-> HasSubmission(session.capabilities, account)])
                    /\ idx' = idx + 1
                    /\ pc' = IF idx + 1 > Len(accounts) THEN "build" ELSE "client"
                    /\ UNCHANGED exitCode
    /\ UNCHANGED <<env, serverApiUrl, parsed, accounts, fetchLayers, jam, issued, wire,
                   answered, delivered, served, tools, call, pending, mailbox, cli>>

\* createServer building the server whatever the registry holds
BuildServerUnchecked ==
    /\ pc = "build"
    /\ pc' = "built"
    /\ tools' = registerEmailTools(accountMap)
                 \cup (IF HasAnySubmission(accountMap)
                       THEN registerEmailSubmissionTools(accountMap) ELSE {})
    /\ UNCHANGED <<env, serverApiUrl, parsed, accounts, idx, fetchLayers, jam, accountMap,
                   issued, wire, answered, delivered, exitCode, served, call, pending, mailbox, cli>>

\* createServer after the loop: firstAccount.name is read for the
\* instructions, then the tools are registered
BuildServer ==
    /\ pc = "build"
    /\ IF accountMap = <<>>
       THEN Exit(1) /\ UNCHANGED tools
       ELSE /\ pc' = "built"
            /\ tools' = registerEmailTools(accountMap)
                         \cup (IF HasAnySubmission(accountMap)
                               THEN registerEmailSubmissionTools(accountMap) ELSE {})
            /\ UNCHANGED exitCode
    /\ UNCHANGED <<env, serverApiUrl, parsed, accounts, idx, fetchLayers, jam, accountMap,
                   issued, wire, answered, delivered, served, call, pending, mailbox, cli>>

\* await server.connect(transport)
Connect ==
    /\ pc = "built"
    /\ pc' = "serving"
    /\ UNCHANGED <<env, serverApiUrl, parsed, accounts, idx, fetchLayers, jam, accountMap,
                   issued, wire, answered, delivered, exitCode, served, tools, call, pending, mailbox, cli>>

\* the MCP server accepts a call of a registered tool and runs its handler
Accepts(tool) == pc = "serving" /\ served < MaxCalls /\ tool \in tools

\* a handler without its catch: an error raised in it ends the process
AnsweringPropagating ==
    /\ served' = served + 1
    /\ pc' = IF call'.error # NoError THEN "exited" ELSE "responding"
    /\ UNCHANGED <<env, serverApiUrl, parsed, accounts, idx, fetchLayers, jam, accountMap,
                   exitCode, tools, pending, cli>>

\* what a handler leaves alone, and the call going on to its answer
Answering ==
    /\ served' = served + 1
    /\ pc' = "responding"
    /\ UNCHANGED <<env, serverApiUrl, parsed, accounts, idx, fetchLayers, jam, accountMap,
                   exitCode, tools, pending, cli>>

\* one call of search_emails: the account is resolved and its client posts
\* Email/query to its apiUrl
CallTool ==
    /\ Accepts("search_emails")
    /\ \E requested \in Requested, resp \in ApiResponses :
         Handle("search_emails", requested, TRUE, 1, resp)
    /\ UNCHANGED mailbox
    /\ Answering

\* one call of mark_emails, move_emails or delete_emails
CallWriteTool ==
    \E tool \in WriteTools :
        /\ Accepts(tool)
        /\ \E requested \in Requested, resp \in ApiResponses :
             Handle(tool, requested, TRUE, 1, resp)
        /\ UNCHANGED mailbox
        /\ Answering

\* one call of create_draft or update_draft
CallDraftTool ==
    \E tool \in DraftTools :
        /\ Accepts(tool)
        /\ \E requested \in Requested, hasBody \in BOOLEAN,
              n \in 1..Len(Plan(tool)), resp \in ApiResponses :
             Handle(tool, requested, hasBody, n, resp)
        /\ UNCHANGED mailbox
        /\ Answering

\* the draft on the server after a handler has run as recorded in c: once
\* send_draft goes on to EmailSubmission/set its Email/set has taken the
\* $draft keyword off, and the submission exists if the answer to
\* EmailSubmission/set is readable and carries the created object
AfterSendDraft(c, created, box) ==
    IF c.tool = "send_draft" /\ Len(c.methods) = 2
    THEN [draft |-> FALSE, submitted |-> box.submitted \/ (c.error = NoError /\ created)]
    ELSE box

\* one call of send_email, reply_to_email or send_draft
CallSendTool ==
    \E tool \in SendTools :
        /\ Accepts(tool)
        /\ \E requested \in Requested, hasBody \in BOOLEAN,
              n \in 1..Len(Plan(tool)), resp \in ApiResponses, created \in BOOLEAN :
             /\ Handle(tool, requested, hasBody, n, resp)
             /\ mailbox' = AfterSendDraft(call', created, mailbox)
        /\ Answering

\* one call of list_accounts, which takes no account and calls no method
ListAccounts ==
    /\ Accepts("list_accounts")
    /\ call' = [NoCall EXCEPT !.tool = "list_accounts", !.result = ListAll(accountMap)]
    /\ UNCHANGED <<issued, wire, answered, delivered, mailbox>>
    /\ Answering

\* the result of the handler is sent to the MCP client and the call is over
Respond ==
    /\ pc = "responding"
    /\ pc' = "serving"
    /\ call' = NoCall
    /\ issued' = NoRequest
    /\ wire' = NoRequest
    /\ answered' = NoResponse
    /\ delivered' = NoResponse
    /\ UNCHANGED <<env, serverApiUrl, parsed, accounts, idx, fetchLayers, jam, accountMap,
                   exitCode, served, tools, pending, mailbox, cli>>

Next ==
    \/ GetJMAPConfig
    \/ CreateJAMClient
    \/ OpenSession
    \/ Register
    \/ BuildServer
    \/ Connect
    \/ CallTool
    \/ Respond

Spec == Init /\ [][Next]_vars

(***************************************************************************)
(* The server with all its tools, started against one session endpoint.    *)
(***************************************************************************)
InitTools == Init /\ env.JMAP_SESSION_URL = UrlPlain /\ serverApiUrl = ApiSecure

NextTools ==
    \/ GetJMAPConfig
    \/ CreateJAMClient
    \/ OpenSession
    \/ Register
    \/ BuildServer
    \/ Connect
    \/ CallTool
    \/ CallWriteTool
    \/ CallDraftTool
    \/ CallSendTool
    \/ ListAccounts
    \/ Respond

SpecTools == InitTools /\ [][NextTools]_vars

(***************************************************************************)
(* The response side of the adapter on its own: the builtin fetch answers  *)
(* one request of the last client created, and the answer travels back     *)
(* through the installed adapters.                                         *)
(***************************************************************************)
Port80 == <<":", "8", "0">>
QueryInsecure == <<"/", "?", "u", "=">> \o SchemeHttp \o HostMail \o Port8080
QuerySecure == <<"/", "?", "u", "=">> \o SchemeHttps \o HostMail

\* apiUrl values: either scheme, with or without a port, with or without a
\* path or a query that carries another URL
RepairUrls ==
    {scheme \o HostMail \o port \o tail :
        scheme \in {SchemeHttp, SchemeHttps},
        port \in {<<>>, Port8080, Port80},
        tail \in {<<>>, <<"/", "a", "p", "i">>, QueryInsecure, QuerySecure}}

\* what the builtin fetch may answer
RepairResponses ==
    {[failed |-> TRUE, json |-> FALSE, body |-> NoBody, rebuilt |-> FALSE],
     [failed |-> FALSE, json |-> FALSE, body |-> NoBody, rebuilt |-> FALSE]}
    \cup {[failed |-> FALSE, json |-> TRUE, body |-> [NoBody EXCEPT !.apiUrl = u],
           rebuilt |-> FALSE] : u \in RepairUrls \cup {Undefined}}

\* the state createServer is in after createJAMClient of its last account,
\* for one or two username:password accounts, with one request on the wire
InitRepair ==
    /\ env \in {[JMAP_SESSION_URL |-> UrlWellKnown, JMAP_BEARER_TOKENS |-> b,
                  JMAP_BEARER_TOKEN |-> Undefined,
      JMAP_ACCOUNT_ID |-> Undefined] :
                    b \in {EntryA, JoinLines(<<EntryA, EntryB>>)}}
    /\ serverApiUrl = ApiSecure
    /\ pc = "fetching"
    /\ parsed = parseAccounts(env)
    /\ accounts = parsed.value
    /\ idx = Len(accounts)
    /\ fetchLayers = [i \in 1..Len(accounts) |->
                         Layer([sessionUrl |-> env.JMAP_SESSION_URL,
                                bearerToken |-> accounts[i].bearerToken])]
    /\ jam = [client |-> idx, bearerToken |-> fetchLayers[idx].password, session |-> NoBody]
    /\ accountMap = <<>>
    /\ \E url \in {UrlWellKnown, UrlPlain, ApiSecure} :
         /\ issued = [url |-> url, authorization |-> Bearer(jam.bearerToken), client |-> idx]
         /\ wire = Outbound(fetchLayers, Len(fetchLayers), issued)
    /\ answered = NoResponse
    /\ delivered = NoResponse
    /\ exitCode = -1
    /\ served = 0
    /\ tools = {}
    /\ call = NoCall
    /\ pending = EmptyBag
    /\ mailbox = DraftStored
    /\ cli = NoCli

\* the builtin fetch answers and the first adapter installed, which called
\* it, returns
InnerReturns ==
    /\ pc = "fetching"
    /\ \E resp \in RepairResponses :
         /\ answered' = resp
         /\ delivered' = AdapterResponse(fetchLayers[1], issued.url, resp)
    /\ pc' = "inner"
    /\ UNCHANGED <<env, serverApiUrl, parsed, accounts, idx, fetchLayers, jam, accountMap,
                   issued, wire, exitCode, served, tools, call, pending, mailbox, cli>>

\* the adapter installed second, whose originalFetch is the first, returns
OuterReturns ==
    /\ pc = "inner"
    /\ Len(fetchLayers) = 2
    /\ delivered' = AdapterResponse(fetchLayers[2], issued.url, delivered)
    /\ pc' = "outer"
    /\ UNCHANGED <<env, serverApiUrl, parsed, accounts, idx, fetchLayers, jam, accountMap,
                   issued, wire, answered, exitCode, served, tools, call, pending, mailbox, cli>>

NextRepair ==
    \/ InnerReturns
    \/ OuterReturns

SpecRepair == InitRepair /\ [][NextRepair]_vars

(***************************************************************************)
(* parseAccounts on its own: the two credential variables range over every *)
(* short text and over entries longer than the preview.                    *)
(***************************************************************************)
Alphabet == {"a", "b", ":", " ", "\n"}

Texts(n) == UNION {[1..k -> Alphabet] : k \in 0..n}

Pad(n) == [i \in 1..n |-> "x"]

\* texts with one entry around the length of the preview
LongTexts ==
    {pre \o Pad(n) \o post : pre \in Texts(1), post \in Texts(1),
                              n \in (PreviewLen - 2)..MaxPad}

\* blobs of several lines, some written with surrounding whitespace
LineForms ==
    {EntryA, <<" ">> \o EntryB, EntryA \o <<" ">>, EntryOpaque, EntryNoName, <<" ">>}

ComposedTexts == {JoinLines(ls) : ls \in UNION {[1..n -> LineForms] : n \in 2..MaxLines}}

ParseEnvs ==
    {[JMAP_SESSION_URL |-> UrlWellKnown, JMAP_BEARER_TOKENS |-> b, JMAP_BEARER_TOKEN |-> t,
      JMAP_ACCOUNT_ID |-> Undefined] :
        b \in Texts(MaxLen) \cup LongTexts \cup ComposedTexts, t \in {Undefined}}
    \cup
    {[JMAP_SESSION_URL |-> UrlWellKnown, JMAP_BEARER_TOKENS |-> b, JMAP_BEARER_TOKEN |-> t,
      JMAP_ACCOUNT_ID |-> Undefined] :
        b \in {Undefined, <<>>}, t \in Texts(MaxLen) \cup LongTexts \cup {Undefined}}

InitParse ==
    /\ env \in ParseEnvs
    /\ serverApiUrl = ApiSecure
    /\ pc = "parse"
    /\ parsed = Return(<<>>)
    /\ accounts = <<>>
    /\ idx = 0
    /\ fetchLayers = <<>>
    /\ jam = NoClient
    /\ accountMap = <<>>
    /\ issued = NoRequest
    /\ wire = NoRequest
    /\ answered = NoResponse
    /\ delivered = NoResponse
    /\ exitCode = -1
    /\ served = 0
    /\ tools = {}
    /\ call = NoCall
    /\ pending = EmptyBag
    /\ mailbox = DraftStored
    /\ cli = NoCli

\* one call of parseAccounts()
ParseAccounts ==
    /\ pc = "parse"
    /\ parsed' = parseAccounts(env)
    /\ pc' = "parsed"
    /\ UNCHANGED <<env, serverApiUrl, accounts, idx, fetchLayers, jam, accountMap, issued,
                   wire, answered, delivered, exitCode, served, tools, call, pending, mailbox, cli>>

NextParse == ParseAccounts

SpecParse == InitParse /\ [][NextParse]_vars

(***************************************************************************)
(* Properties of parseAccounts, checked under SpecParse.                   *)
(***************************************************************************)
FormatErrorText == "invalid token format, expected \"username:password\", got: "

\* the lines of a multi-account blob, as written
RawLines(blob) == Split(blob, "\n")

\* the text of a line before its first ':' (the whole line if it has none)
BeforeColon(line) ==
    LET colons == {i \in 1..Len(line) : line[i] = ":"}
    IN  IF colons = {} THEN line
        ELSE SubSeq(line, 1, (CHOOSE i \in colons : \A j \in colons : i <= j) - 1)

HasColon(line) == \E i \in 1..Len(line) : line[i] = ":"

\* a line of the form name:secret with a non-empty name (in C7_AsStated the
\* name is moreover required not to be blank)
IsNameSecret(line) == HasColon(line) /\ BeforeColon(line) # <<>>

MultiAccountCall == pc = "parsed" /\ Truthy(env.JMAP_BEARER_TOKENS)

\* C7 as stated: for a multi-account blob of k non-empty lines of the form
\* name:secret, parseAccounts returns k credentials in line order, the i-th
\* named by the text of line i before its first ':'.
C7_AsStated ==
    LET lines == RawLines(env.JMAP_BEARER_TOKENS)
    IN  (MultiAccountCall
         /\ \A i \in 1..Len(lines) :
               IsNameSecret(lines[i]) /\ Trim(BeforeColon(lines[i])) # <<>>)
        => /\ ~parsed.threw
           /\ Len(parsed.value) = Len(lines)
           /\ \A i \in 1..Len(lines) : parsed.value[i].name = BeforeColon(lines[i])

\* C7 amended: when every line, trimmed of surrounding whitespace, has the
\* form name:secret with a non-empty name, parseAccounts returns one
\* credential per line, in line order, the i-th named by the text of the
\* trimmed line i before its first ':'.
C7_RoundTrip ==
    LET lines == RawLines(env.JMAP_BEARER_TOKENS)
    IN  (MultiAccountCall /\ \A i \in 1..Len(lines) : IsNameSecret(Trim(lines[i])))
        => /\ ~parsed.threw
           /\ Len(parsed.value) = Len(lines)
           /\ \A i \in 1..Len(lines) : parsed.value[i].name = BeforeColon(Trim(lines[i]))

\* three lines parsed into three credentials of different names, the second
\* line written with leading whitespace
C7_Witness ==
    LET lines == RawLines(env.JMAP_BEARER_TOKENS)
    IN  /\ MultiAccountCall
        /\ Len(lines) = 3
        /\ \A i \in 1..3 : IsNameSecret(Trim(lines[i]))
        /\ lines[2] # Trim(lines[2])
        /\ Len(parsed.value) = 3
        /\ parsed.value[1].name # parsed.value[2].name

\* the entries of a blob: its trimmed lines that are not empty
Entries(blob) ==
    LET lines == RawLines(blob)
    IN  SelectSeq([i \in 1..Len(lines) |-> Trim(lines[i])], LAMBDA t : t # <<>>)

\* the position of the first entry parseAccounts cannot accept, 0 if none
FirstOffender(entries) ==
    LET bad == {i \in 1..Len(entries) : ~IsNameSecret(entries[i])}
    IN  IF bad = {} THEN 0 ELSE CHOOSE i \in bad : \A j \in bad : i <= j

C9_NameNonEmpty ==
    (pc = "parsed" /\ ~parsed.threw)
    => \A i \in 1..Len(parsed.value) : parsed.value[i].name # <<>>

\* C10: parseAccounts raises an error or returns at least one credential.
C10_NeverEmpty ==
    pc = "parsed" => (parsed.threw \/ Len(parsed.value) >= 1)

\* the single-account form was used: the multi-account variable is absent
\* and the single-account credential is set (to a non-empty text)
SingleAccountCall ==
    pc = "parsed" /\ env.JMAP_BEARER_TOKENS = Undefined /\ Truthy(env.JMAP_BEARER_TOKEN)

DefaultName == <<"d", "e", "f", "a", "u", "l", "t">>

\* C11: when the multi-account variable is absent and the single-account
\* credential is set, parseAccounts returns exactly one credential whose
\* secret is the whole token and whose name is the text before the first ':'
\* of the token if it has one, and "default" otherwise.
C11_SingleForm ==
    SingleAccountCall
    => /\ ~parsed.threw
       /\ Len(parsed.value) = 1
       /\ parsed.value[1].bearerToken = env.JMAP_BEARER_TOKEN
       /\ parsed.value[1].name = IF HasColon(env.JMAP_BEARER_TOKEN)
                                 THEN BeforeColon(env.JMAP_BEARER_TOKEN)
                                 ELSE DefaultName

\* a token with two ':' was parsed into one credential named by the text
\* before the first of them
C11_Witness ==
    /\ SingleAccountCall
    /\ Cardinality({i \in 1..Len(env.JMAP_BEARER_TOKEN) : env.JMAP_BEARER_TOKEN[i] = ":"}) = 2
    /\ Len(parsed.value) = 1
    /\ parsed.value[1].name # <<>>
    /\ parsed.value[1].name # DefaultName
    /\ Len(parsed.value[1].bearerToken) > Len(parsed.value[1].name) + 2

(***************************************************************************)
(* Properties of start-up and of the fetch adapter, checked under Spec.    *)
(***************************************************************************)
\* the request on the wire goes to the host of the configured session URL
TowardServer(url) == Hostname(url) = Hostname(env.JMAP_SESSION_URL)

\* the secret configured for the account whose client issued a request
SecretOf(req) == accounts[req.client].bearerToken

\* Basic credentials made of the username and password of that account
OwnCredentials(req) ==
    LET parts == SplitLimit(SecretOf(req), ":", 2)
    IN  Basic(Btoa(parts[1] \o <<":">> \o parts[2]))

\* C1: every request an account's client sends toward the configured server
\* reaches the network with that account's own username and password.
C1_OwnCredentials ==
    (wire # NoRequest /\ TowardServer(wire.url) /\ HasColon(SecretOf(wire)))
    => wire.authorization = OwnCredentials(wire)

\* C2: for a secret containing ':', a request toward the configured host that
\* carries an Authorization header reaches the network with
\* Basic base64(secret), the password being everything after the first ':'
\* (stated for a single configured account, where no other adapter acts).
C2_WholeSecret ==
    (/\ wire # NoRequest
     /\ Len(accounts) = 1
     /\ TowardServer(wire.url)
     /\ wire.authorization # NoHeader
     /\ HasColon(SecretOf(wire)))
    => wire.authorization = Basic(Btoa(SecretOf(wire)))

\* a request and its response went through at least one installed adapter
Adapted == issued # NoRequest /\ fetchLayers # <<>> /\ delivered # NoResponse

\* C3 as stated: with an adapter installed, a request to a host other than
\* the configured one reaches the network unchanged and its response is
\* returned unchanged, whatever its path or query.
C3_AsStated ==
    (Adapted /\ ~TowardServer(issued.url))
    => wire = issued /\ delivered = answered

\* C3 amended: with an adapter installed, a request whose URL contains
\* neither "jmap" nor the configured hostname reaches the network unchanged
\* and its response is returned unchanged.
C3_UnmatchedUntouched ==
    (/\ Adapted
     /\ ~Includes(issued.url, KeywordJmap)
     /\ ~Includes(issued.url, Hostname(env.JMAP_SESSION_URL)))
    => wire = issued /\ delivered = answered

\* a request to a foreign URL went out below two adapters and was answered
\* with a session-shaped JSON body the repair would rewrite
C3_Witness ==
    /\ Adapted
    /\ Len(fetchLayers) = 2
    /\ issued.url = ApiForeign
    /\ issued.authorization.scheme = "Bearer"
    /\ answered.json
    /\ NeedsRepair(answered.body.apiUrl)

\* C4: every stored session has hasSubmission = (submission capability present
\* and the account not read-only); none is read-only with hasSubmission.
C4_SubmissionGating ==
    \A i \in 1..Len(accountMap) :
        LET info == accountMap[i]
            descriptors == AccountsAt(info.jam.session, info.accountId)
        IN  /\ info.hasSubmission
               <=> /\ CapSubmission \in info.jam.session.capabilities
                   /\ \E a \in descriptors : ~a.isReadOnly
            /\ ~(info.isReadOnly /\ info.hasSubmission)

\* a read-only account of a server that advertises submission is stored
C4_Witness ==
    \E i \in 1..Len(accountMap) :
        /\ CapSubmission \in accountMap[i].jam.session.capabilities
        /\ accountMap[i].isReadOnly
        /\ ~accountMap[i].hasSubmission

\* C5: no stored session lacks the mail capability; a client whose session
\* lacks it is awaiting rejection or has ended the process with an error, and
\* is not in the registry.
C5_MailGate ==
    /\ \A i \in 1..Len(accountMap) : CapMail \in accountMap[i].jam.session.capabilities
    /\ (jam.session # NoBody /\ CapMail \notin jam.session.capabilities)
       => /\ pc \in {"classify", "exited"}
          /\ pc = "exited" => exitCode = 1
          /\ \A i \in 1..Len(accountMap) : accountMap[i].jam.client # jam.client

\* the second account's session, complete but for the mail capability, ended
\* the process
C5_Witness ==
    /\ pc = "exited"
    /\ jam.client = 2
    /\ jam.session # NoBody
    /\ CapMail \notin jam.session.capabilities
    /\ AccountsAt(jam.session, jam.session.primaryAccount) # {}

\* every configured account went through the loop and is in the registry
AllRegistered ==
    /\ Len(accounts) >= 1
    /\ idx = Len(accounts) + 1
    /\ \A i \in 1..Len(accounts) :
         \E j \in 1..Len(accountMap) : accountMap[j].name = accounts[i].name

\* C6: the transport is connected only when every configured account is
\* registered; a failed start-up exits with code 1, has served no tool call
\* and never serves one.
C6_FailFast ==
    /\ [](pc \in {"built", "serving"} => AllRegistered /\ exitCode = -1)
    /\ [](pc = "exited" => exitCode = 1 /\ served = 0)
    /\ [](served > 0 => pc \in {"serving", "responding"})
    /\ [][pc = "exited" => pc' = "exited"]_vars

\* the process exited on the second account with the first one registered
C6_Witness ==
    /\ pc = "exited"
    /\ Len(accounts) = 2
    /\ Len(accountMap) = 1
    /\ idx = 2

\* start-up has succeeded: the server object was built, or is serving
StartedUp == pc \in {"built", "serving"}

\* the configuration was read and yields no account
NoAccountConfigured == pc # "start" /\ ~parsed.threw /\ parsed.value = <<>> /\ exitCode # 1

\* C12: whenever start-up has succeeded the registry holds at least one
\* session; with a configuration that yields no account start-up never
\* succeeds, and its next step ends the process with an error.
C12_NonEmptyRegistry ==
    /\ [](StartedUp => Len(accountMap) >= 1)
    /\ []((pc # "start" /\ ~parsed.threw /\ parsed.value = <<>>) => ~StartedUp /\ served = 0)
    /\ [][NoAccountConfigured => pc' = "exited" /\ exitCode' = 1]_vars

\* a blob of blank lines was accepted by parseAccounts, gave no account, and
\* start-up ended with an error
C12_Witness ==
    /\ Truthy(env.JMAP_BEARER_TOKENS)
    /\ IsUrl(env.JMAP_SESSION_URL)
    /\ ~parsed.threw
    /\ parsed.value = <<>>
    /\ accountMap = <<>>
    /\ pc = "exited"
    /\ exitCode = 1

\* the registry of a start-up that has succeeded, with tools being served
Serving == pc = "serving"

\* the name of the first configured account
FirstConfiguredName == accounts[1].name

\* C13: for the registry of a successful start-up, getAccount with the name
\* omitted returns, without raising, the same session as getAccount called
\* with the name of the first configured account.
C13_DefaultResolution ==
    Serving
    => /\ ~getAccount(accountMap, Undefined).threw
       /\ getAccount(accountMap, Undefined) = getAccount(accountMap, FirstConfiguredName)

\* two accounts of different names are registered and the default is the
\* first configured one, not the second
C13_Witness ==
    /\ Serving
    /\ Len(accountMap) = 2
    /\ served > 0
    /\ accounts[1].name # accounts[2].name
    /\ getAccount(accountMap, Undefined).value.name = accounts[1].name
    /\ getAccount(accountMap, Undefined).value.jam.client = 1
    /\ getAccount(accountMap, accounts[2].name).value.jam.client = 2

(***************************************************************************)
(* Properties of the tools, checked under SpecTools.                       *)
(***************************************************************************)
\* a handler that resolves an account has run and its answer is pending
Resolving == pc = "responding" /\ call.tool # "list_accounts"

IsKey(m, name) == \E i \in 1..Len(m) : m[i].name = name

\* C14: getAccount called with a name that is not a key of the registry
\* raises the not-found error, whose message lists every configured account
\* name, and returns no session: the handler calls no method.
C14_UnknownRejected ==
    (Resolving /\ call.requested # Undefined /\ ~IsKey(accountMap, call.requested))
    => /\ call.error = [text |-> "account not found. available accounts: ",
                        got |-> Keys(accountMap)]
       /\ \A i \in 1..Len(accounts) :
             \E j \in 1..Len(call.error.got) : call.error.got[j] = accounts[i].name
       /\ call.session = 0
       /\ call.methods = <<>>

\* the session of the registry whose client a handler used
SessionUsed == CHOOSE i \in 1..Len(accountMap) : accountMap[i].jam.client = call.session

\* the session the account argument of the call stands for
Resolved == getAccount(accountMap, call.requested)

SetMethods == {"Email/set", "EmailSubmission/set"}

\* C15: no handler calls Email/set or EmailSubmission/set with a read-only
\* session, nor EmailSubmission/set with a session without submission; a
\* write tool called for a read-only account and a submission tool called
\* for an account without submission answer with an error naming the
\* account, having called no method.
C15_CapabilityChecked ==
    Resolving
    => /\ \A k \in 1..Len(call.methods) :
             /\ call.methods[k] \in SetMethods => ~accountMap[SessionUsed].isReadOnly
             /\ call.methods[k] = "EmailSubmission/set"
                => accountMap[SessionUsed].hasSubmission
       /\ (/\ ~Resolved.threw
           /\ call.tool \in WriteTools \cup DraftTools
           /\ Resolved.value.isReadOnly)
          => /\ call.error = [text |-> "account is read-only", got |-> Resolved.value.name]
             /\ call.methods = <<>>
       /\ (/\ ~Resolved.threw
           /\ call.tool \in SendTools
           /\ ~Resolved.value.hasSubmission)
          => /\ call.error = [text |-> "account does not support email submission",
                              got |-> Resolved.value.name]
             /\ call.methods = <<>>

\* of two registered accounts the first can send and the second is
\* read-only: send_draft was called for the second and refused by name
C15_Witness ==
    /\ Resolving
    /\ Len(accountMap) = 2
    /\ accountMap[1].hasSubmission
    /\ accountMap[2].isReadOnly
    /\ call.tool = "send_draft"
    /\ call.requested = accountMap[2].name
    /\ call.error.got = accountMap[2].name
    /\ call.methods = <<>>

\* the server object exists, with its tools registered
Built == pc \in {"built", "serving", "responding"}

\* C16: mark_emails, move_emails and delete_emails are registered if and
\* only if some session of the registry is not read-only, and the tools of
\* the submission module if and only if some session has hasSubmission; a
\* category is registered as a whole or not at all.
C16_ToolGating ==
    Built
    => /\ IF \E i \in 1..Len(accountMap) : ~accountMap[i].isReadOnly
          THEN WriteTools \subseteq tools
          ELSE WriteTools \cap tools = {}
       /\ IF \E i \in 1..Len(accountMap) : accountMap[i].hasSubmission
          THEN SendTools \cup DraftTools \subseteq tools
          ELSE (SendTools \cup DraftTools) \cap tools = {}
       /\ ReadTools \cup {"list_accounts"} \subseteq tools

\* a server with a read-only account and a writable one, neither able to
\* send: the write tools are registered, the submission module is not
C16_Witness ==
    /\ Built
    /\ Len(accountMap) = 2
    /\ accountMap[1].isReadOnly
    /\ ~accountMap[2].isReadOnly
    /\ ~accountMap[2].hasSubmission
    /\ "delete_emails" \in tools
    /\ "send_email" \notin tools
    /\ "create_draft" \notin tools

\* the position at which a name is first configured
FirstConfigured(name) ==
    CHOOSE i \in 1..Len(accounts) :
        accounts[i].name = name /\ \A j \in 1..(i - 1) : accounts[j].name # name

\* C20: list_accounts answers with one entry per session of the registry,
\* in the order the names were first inserted, each with the name of the
\* session, the isReadOnly flag the server reported for its account and the
\* hasSubmission flag stored for it at start-up.
C20_ListAccounts ==
    (pc = "responding" /\ call.tool = "list_accounts")
    => /\ Len(call.result) = Len(accountMap)
       /\ call.methods = <<>>
       /\ call.error = NoError
       /\ \A i \in 1..Len(accountMap) :
             LET info == accountMap[i]
                 reported == AccountsAt(info.jam.session, info.accountId)
             IN  /\ DOMAIN call.result[i] = {"name", "isReadOnly", "hasSubmission"}
                 /\ call.result[i].name = info.name
                 /\ reported # {}
                 /\ \A a \in reported : call.result[i].isReadOnly = a.isReadOnly
                 /\ call.result[i].hasSubmission = info.hasSubmission
       /\ \A i, j \in 1..Len(call.result) :
             i < j => FirstConfigured(call.result[i].name) < FirstConfigured(call.result[j].name)

\* list_accounts answered for a writable account able to send followed by a
\* read-only one
C20_Witness ==
    /\ pc = "responding"
    /\ call.tool = "list_accounts"
    /\ Len(call.result) = 2
    /\ call.result[1].name = accounts[1].name
    /\ ~call.result[1].isReadOnly
    /\ call.result[1].hasSubmission
    /\ call.result[2].isReadOnly
    /\ ~call.result[2].hasSubmission

(***************************************************************************)
(* Properties of the endpoint repair, checked under SpecRepair.            *)
(***************************************************************************)
\* the authority of a URL: the text between "://" and the path or query
Authority(url) ==
    LET rest == SubSeq(url, Find(url, <<":", "/", "/">>) + 3, Len(url))
        stop == {i \in 1..Len(rest) : rest[i] \in {"/", "?", "#"}}
    IN  IF stop = {} THEN rest
        ELSE SubSeq(rest, 1, (CHOOSE i \in stop : \A j \in stop : i <= j) - 1)

StartsWith(s, prefix) == Len(s) >= Len(prefix) /\ SubSeq(s, 1, Len(prefix)) = prefix

\* the URL already uses the secure scheme and names no port
SecurePortFree(url) == StartsWith(url, SchemeHttps) /\ ~HasColon(Authority(url))

\* the URL uses the insecure scheme on port 8080
Insecure8080(url) ==
    /\ StartsWith(url, SchemeHttp)
    /\ Len(Authority(url)) >= Len(Port8080)
    /\ SubSeq(Authority(url), Len(Authority(url)) - Len(Port8080) + 1, Len(Authority(url)))
          = Port8080

\* the answer is the JSON of a session-discovery request
Discovery ==
    /\ answered.json
    /\ Includes(issued.url, KeywordSession) \/ Includes(issued.url, WellKnownJmap)

\* C17: the repair leaves an apiUrl that uses the secure scheme and names no
\* port unchanged, and for every apiUrl the repair applied twice (by two
\* adapters in a row) gives what the repair applied once gives.
C17_RepairIdempotent ==
    /\ (pc = "inner" /\ Discovery /\ Truthy(answered.body.apiUrl)
          /\ SecurePortFree(answered.body.apiUrl))
       => delivered.body.apiUrl = answered.body.apiUrl
    /\ (pc = "outer" /\ Discovery)
       => delivered.body.apiUrl
            = AdapterResponse(fetchLayers[1], issued.url, answered).body.apiUrl

\* C18: for a matching request whose response is not that of a session
\* discovery, or is not JSON, or is JSON whose apiUrl does not use the
\* insecure scheme on port 8080, the adapter returns the response it was
\* given, unmodified.
C18_PassThrough ==
    (/\ pc = "inner"
     /\ Matches(issued.url, fetchLayers[1])
     /\ ~answered.failed
     /\ \/ ~Discovery
        \/ ~Truthy(answered.body.apiUrl)
        \/ ~Insecure8080(answered.body.apiUrl))
    => delivered = answered

(***************************************************************************)
(* The bearer-token account, checked under Spec.                           *)
(***************************************************************************)
\* C19: createJAMClient for an account whose secret has no ':' installs no
\* adapter and constructs the client with the whole secret as bearer token,
\* and every request of such an account reaches the network with the
\* Authorization header it was issued with, Bearer and the whole secret.
C19_BearerBypass ==
    /\ [][(pc = "client" /\ ~HasColon(accounts[idx].bearerToken))
           => /\ fetchLayers' = fetchLayers
              /\ jam'.client = idx
              /\ jam'.bearerToken = accounts[idx].bearerToken]_vars
    /\ []((wire # NoRequest /\ ~HasColon(SecretOf(wire)))
          => /\ wire.authorization = Bearer(SecretOf(wire))
             /\ wire = issued)
    /\ [](\A i \in 1..Len(accountMap) :
             ~HasColon(accounts[accountMap[i].jam.client].bearerToken)
             => accountMap[i].jam.bearerToken = accounts[accountMap[i].jam.client].bearerToken)

\* the client of a bearer-token account has posted a tool request to the
\* configured host, which an adapter would have matched
C19_Witness ==
    /\ pc = "responding"
    /\ ~HasColon(SecretOf(wire))
    /\ TowardServer(wire.url)
    /\ wire.url # env.JMAP_SESSION_URL
    /\ wire.authorization.scheme = "Bearer"
    /\ fetchLayers = <<>>

(***************************************************************************)
(* send_draft and the draft it sends, checked under SpecTools.             *)
(***************************************************************************)
\* C30: whenever send_draft has run, the draft has lost its $draft keyword
\* only if an EmailSubmission for it was created; a send_draft whose
\* submission call fails or creates nothing leaves the draft marked $draft.
C30_DraftKeptUnlessSent ==
    (pc = "responding" /\ call.tool = "send_draft")
    => (~mailbox.draft => mailbox.submitted)

(***************************************************************************)
(* Errors inside handlers, checked under SpecTools.                        *)
(***************************************************************************)
AfterStartup == pc \in {"serving", "responding"}

\* C22: after start-up every tool invocation ends with a result for the
\* caller, which carries the text of the error when one was raised in the
\* handler; no error ends the process, and once the result is sent the
\* server is serving again with the same tools.
C22_ErrorsReturned ==
    /\ [][pc = "serving" /\ served' # served
           => pc' = "responding" /\ call' # NoCall /\ call'.tool \in tools]_vars
    /\ [][pc = "responding" => pc' = "serving" /\ call' = NoCall]_vars
    /\ [][AfterStartup => AfterStartup' /\ exitCode' = -1 /\ tools' = tools]_vars
    /\ [](pc = "exited" => served = 0)

\* the server has taken a second call, which it answers with the not-found
\* error
C22_Witness ==
    /\ pc = "responding"
    /\ served = 2
    /\ call.tool = "send_draft"
    /\ call.error.text = "account not found. available accounts: "
    /\ exitCode = -1

(***************************************************************************)
(* The loop of createServer, checked under Spec.                           *)
(***************************************************************************)
\* the registry holds a session built by the client of account i
StoredBy(m, i) == \E j \in 1..Len(m) : m[j].jam.client = i

\* C23: the accounts are initialised one after another in configuration
\* order: the client of account i + 1 is constructed only when every
\* account before it is registered, the loop moves from an account to the
\* next only by registering it, and the session and the classification in
\* progress are always those of the one account the loop is at.
C23_Sequential ==
    /\ [](pc \in {"client", "session", "classify"}
          => /\ idx \in 1..Len(accounts)
             /\ \A i \in 1..(idx - 1) : IsKey(accountMap, accounts[i].name)
             /\ \A i \in idx..Len(accounts) : ~StoredBy(accountMap, i))
    /\ [](pc \in {"session", "classify"} => jam.client = idx)
    /\ [][idx' # idx
           => \/ pc = "start" /\ idx' = 1
              \/ pc = "classify" /\ idx' = idx + 1 /\ StoredBy(accountMap', idx)]_vars
    /\ [][jam' # jam /\ pc # "session"
           => pc = "client" /\ jam'.client = idx /\ jam'.session = NoBody]_vars

\* the session of the second account is being opened with the first account
\* registered and nothing of the second in the registry
C23_Witness ==
    /\ pc = "session"
    /\ idx = 2
    /\ Len(accounts) = 2
    /\ Len(accountMap) = 1
    /\ accountMap[1].jam.client = 1
    /\ jam.client = 2
    /\ jam.session = NoBody

\* the text of an account id as it is written in the environment
IdText(id) == IF id = "u1" THEN <<"u", "1">> ELSE IF id = "u2" THEN <<"u", "2">> ELSE Undefined

\* C24: with an account id configured in the environment every registered
\* session has that id as its accountId; with none configured the accountId
\* is the primary account of the session.
C24_AccountIdOverride ==
    \A i \in 1..Len(accountMap) :
        IF Truthy(env.JMAP_ACCOUNT_ID)
        THEN IdText(accountMap[i].accountId) = env.JMAP_ACCOUNT_ID
        ELSE accountMap[i].accountId = accountMap[i].jam.session.primaryAccount

\* C25: when the resolved account id is not in the account list of the
\* session, the initialisation of the account fails, whatever capabilities
\* the session has: the process exits with an error and the registry is
\* left as it was, so that every registered session has its account listed.
C25_MissingAccountFails ==
    /\ [][(pc = "classify"
            /\ AccountsAt(jam.session, ResolveAccountId(accounts[idx], jam.session)) = {})
           => pc' = "exited" /\ exitCode' = 1 /\ accountMap' = accountMap]_vars
    /\ [](\A i \in 1..Len(accountMap) :
             AccountsAt(accountMap[i].jam.session, accountMap[i].accountId) # {})

\* a session with the mail and submission capabilities whose primary account
\* is not in its account list ended the process
C25_Witness ==
    /\ pc = "exited"
    /\ exitCode = 1
    /\ jam.session # NoBody
    /\ jam.session.capabilities = {CapMail, CapSubmission}
    /\ jam.session.primaryAccount = "u1"
    /\ jam.session.accounts = {}
    /\ ~StoredBy(accountMap, jam.client)

(***************************************************************************)
(* Several adapters around one fetch, checked under Spec.                  *)
(***************************************************************************)
\* the header an adapter writes: Basic with the pair it captured
HeaderOf(layer) == Basic(Btoa(layer.username \o <<":">> \o layer.password))

\* a request that carries an Authorization header and that the installed
\* adapters match has been issued after start-up, with two or more adapters
MatchedAfterStartup ==
    /\ pc \in {"serving", "responding"}
    /\ issued # NoRequest
    /\ issued.authorization # NoHeader
    /\ Len(fetchLayers) >= 2
    /\ \A i \in 1..Len(fetchLayers) : Matches(issued.url, fetchLayers[i])

\* C27 as stated: with two or more username:password accounts, every
\* matching request issued after start-up, by any account's client, reaches
\* the network with the pair captured by the adapter installed last.
C27_AsStated ==
    MatchedAfterStartup => wire.authorization = HeaderOf(fetchLayers[Len(fetchLayers)])

\* C27 amended: with two or more username:password accounts, every matching
\* request issued after start-up, by any account's client, reaches the
\* network with the pair captured by the adapter installed first, that of
\* the first configured account.
C27_FirstInstalledWins ==
    MatchedAfterStartup
    => /\ wire.authorization = HeaderOf(fetchLayers[1])
       /\ fetchLayers[1] = Layer([sessionUrl |-> env.JMAP_SESSION_URL,
                                  bearerToken |-> accounts[1].bearerToken])

\* the client of the second account, whose adapter captured another pair
\* than the first, has posted a request that went out with the first pair
C27_Witness ==
    /\ MatchedAfterStartup
    /\ issued.client = 2
    /\ HeaderOf(fetchLayers[2]) # HeaderOf(fetchLayers[1])
    /\ wire.authorization = HeaderOf(fetchLayers[1])

\* C28: an adapter once installed stays installed: the adapters change only
\* when createJAMClient runs for a username:password account, which adds
\* exactly one adapter around those already there, and in every state a
\* request that carries an Authorization header and that the adapters match
\* has been through all of them, down to the one installed first.
C28_OneWayPatch ==
    /\ [][fetchLayers' # fetchLayers
           => /\ pc = "client"
              /\ HasColon(accounts[idx].bearerToken)
              /\ Len(fetchLayers') = Len(fetchLayers) + 1
              /\ SubSeq(fetchLayers', 1, Len(fetchLayers)) = fetchLayers]_vars
    /\ [][(pc = "client" /\ HasColon(accounts[idx].bearerToken))
           => fetchLayers' # fetchLayers]_vars
    /\ []((/\ issued # NoRequest
           /\ issued.authorization # NoHeader
           /\ fetchLayers # <<>>
           /\ \A i \in 1..Len(fetchLayers) : Matches(issued.url, fetchLayers[i]))
          => /\ wire.authorization = HeaderOf(fetchLayers[1])
             /\ wire.url = issued.url)

\* a tool request posted after start-up went through the two adapters that
\* start-up installed
C28_Witness ==
    /\ pc = "responding"
    /\ served = MaxCalls
    /\ Len(fetchLayers) = 2
    /\ Matches(issued.url, fetchLayers[2])
    /\ issued.authorization.scheme = "Bearer"
    /\ wire.authorization.scheme = "Basic"

\* C29: after a successful start-up the registry holds one session for each
\* parsed credential, in configuration order: as many entries as there are
\* credentials, the i-th of them built from the i-th credential.
C29_OnePerCredential ==
    (StartedUp \/ AfterStartup)
    => /\ Len(accountMap) = Len(accounts)
       /\ \A i \in 1..Len(accountMap) :
             /\ accountMap[i].name = accounts[i].name
             /\ accountMap[i].jam.client = i

(***************************************************************************)
(* The jmapper command line client: main, getConfig and createClient.      *)
(***************************************************************************)
OptAccount == <<"-", "a">>
OptCompact == <<"-", "c">>
OptTsv == <<"-", "t">>
OptTsvLong == <<"-", "-", "t", "s", "v">>
CmdHelp == <<"h", "e", "l", "p">>
CmdInbox == <<"i", "n", "b", "o", "x">>
CmdAccounts == <<"a", "c", "c", "o", "u", "n", "t", "s">>
CmdUnknown == <<"x">>

\* the words main prints the help text for
HelpWords == {CmdHelp, <<"-", "h">>, <<"-", "-", "h", "e", "l", "p">>}

\* the commands of the switch in main
Commands ==
    {CmdInbox, <<"u", "n", "r", "e", "a", "d">>, <<"s", "e", "a", "r", "c", "h">>,
     <<"f", "r", "o", "m">>, <<"r", "e", "a", "d">>, <<"m", "a", "r", "k">>, <<"i", "d", "s">>,
     <<"r", "e", "p", "l", "y">>, <<"s", "e", "n", "d">>}

\* the option loop of main from args[i] on
RECURSIVE ParseOptions(_, _, _)
ParseOptions(args, i, opts) ==
    IF i > Len(args) THEN opts
    ELSE IF args[i] = OptAccount /\ i + 1 <= Len(args) /\ Truthy(args[i + 1])
    THEN ParseOptions(args, i + 2, [opts EXCEPT !.account = args[i + 1]])
    ELSE IF args[i] = OptCompact
    THEN ParseOptions(args, i + 1, [opts EXCEPT !.fmt = "compact"])
    ELSE IF args[i] \in {OptTsv, OptTsvLong}
    THEN ParseOptions(args, i + 1, [opts EXCEPT !.fmt = "tsv"])
    ELSE ParseOptions(args, i + 1, [opts EXCEPT !.positional = Append(@, args[i])])

\* the accounts of getConfig: every non-empty line of the credential text,
\* named by what stands before its first colon
RECURSIVE ConfigAccounts(_)
ConfigAccounts(lines) ==
    IF lines = <<>> THEN <<>>
    ELSE <<[name |-> Substring(Head(lines), 0, IndexOf(Head(lines), ":")),
            token |-> Head(lines)]>> \o ConfigAccounts(Tail(lines))

\* getConfig
getConfig(e) ==
    LET tokens == IF Truthy(e.JMAP_BEARER_TOKENS) THEN e.JMAP_BEARER_TOKENS
                  ELSE e.JMAP_BEARER_TOKEN
    IN  IF ~Truthy(e.JMAP_SESSION_URL) THEN Throw("JMAP_SESSION_URL not set", <<>>)
        ELSE IF ~Truthy(tokens) THEN Throw("JMAP_BEARER_TOKEN(S) not set", <<>>)
        ELSE Return(ConfigAccounts(FilterNonEmpty(Split(tokens, "\n"))))

\* Array.prototype.find: the position of the first element that satisfies
\* the test, 0 for undefined
FindFirst(as, Test(_)) ==
    IF \E i \in 1..Len(as) : Test(as[i])
    THEN CHOOSE i \in 1..Len(as) : Test(as[i]) /\ \A j \in 1..(i - 1) : ~Test(as[j])
    ELSE 0

\* the account createClient would use if the prefix were tried first
SelectAccountPrefixFirst(as, accountName) ==
    IF ~Truthy(accountName) THEN (IF Len(as) >= 1 THEN 1 ELSE 0)
    ELSE FindFirst(as, LAMBDA a : StartsWith(a.name, accountName))

\* the account createClient uses (its position in config.accounts, 0 for
\* undefined)
SelectAccount(as, accountName) ==
    IF ~Truthy(accountName) THEN (IF Len(as) >= 1 THEN 1 ELSE 0)
    ELSE IF FindFirst(as, LAMBDA a : a.name = accountName) # 0
    THEN FindFirst(as, LAMBDA a : a.name = accountName)
    ELSE FindFirst(as, LAMBDA a : StartsWith(a.name, accountName))

\* const [username, password] = acct.token.split(":", 2), with the session
\* URL the adapter closes over
CliLayer(sessionUrl, token) ==
    LET parts == SplitLimit(token, ":", 2)
    IN  [username |-> parts[1],
         password |-> IF Len(parts) >= 2 THEN parts[2] ELSE Undefined,
         sessionUrl |-> sessionUrl]

CliLines == {<<"a", "b", ":", "p">>, <<"a", "x", ":", "q">>, <<"a", ":", "t">>, EntryNoName}

CliBlobs ==
    {JoinLines(ls) : ls \in UNION {[1..n -> CliLines] : n \in 1..MaxLines}} \cup {<<"\n">>}

CliEnvs ==
    {[JMAP_SESSION_URL |-> UrlPlain, JMAP_BEARER_TOKENS |-> b, JMAP_BEARER_TOKEN |-> EntryA,
      JMAP_ACCOUNT_ID |-> Undefined] : b \in CliBlobs \cup {Undefined}}
    \cup
    {[JMAP_SESSION_URL |-> u, JMAP_BEARER_TOKENS |-> Undefined, JMAP_BEARER_TOKEN |-> t,
      JMAP_ACCOUNT_ID |-> Undefined] : u \in {Undefined, UrlPlain}, t \in {Undefined, EntryB}}

\* the account names given with -a
CliNames == {<<"a">>, <<"a", "b">>, <<"a", "x">>, <<"b">>}

CliArgs ==
    {<<>>, <<CmdHelp>>, <<CmdInbox>>, <<CmdAccounts>>, <<CmdUnknown>>, <<CmdInbox, OptAccount>>,
     <<OptAccount, <<>>, CmdInbox>>, <<OptTsv, CmdInbox>>}
    \cup {<<OptAccount, n, CmdInbox>> : n \in CliNames}
    \cup {<<OptCompact, CmdInbox, OptAccount, n>> : n \in CliNames}

InitCli ==
    /\ env \in CliEnvs
    /\ serverApiUrl = ApiSecure
    /\ pc = "cli"
    /\ parsed = Return(<<>>)
    /\ accounts = <<>>
    /\ idx = 0
    /\ fetchLayers = <<>>
    /\ jam = NoClient
    /\ accountMap = <<>>
    /\ issued = NoRequest
    /\ wire = NoRequest
    /\ answered = NoResponse
    /\ delivered = NoResponse
    /\ exitCode = -1
    /\ served = 0
    /\ tools = {}
    /\ call = NoCall
    /\ pending = EmptyBag
    /\ mailbox = DraftStored
    /\ cli \in {[NoCli EXCEPT !.pc = "main", !.args = a] : a \in CliArgs}

\* main up to getConfig: the help text, or the options and the command
CliMain ==
    /\ cli.pc = "main"
    /\ IF cli.args = <<>> \/ cli.args[1] \in HelpWords
       THEN cli' = [cli EXCEPT !.pc = "done"]
       ELSE LET opts == ParseOptions(cli.args, 1,
                                     [account |-> Undefined, fmt |-> "human",
                                      positional |-> <<>>])
            IN  cli' = [cli EXCEPT !.pc = "config", !.account = opts.account,
                                   !.cmd = IF opts.positional = <<>> THEN Undefined
                                           ELSE opts.positional[1]]
    /\ UNCHANGED <<env, serverApiUrl, pc, parsed, accounts, idx, fetchLayers, jam, accountMap,
                   issued, wire, answered, delivered, exitCode, served, tools, call, pending,
                   mailbox>>

\* getConfig in main, and the accounts command, which needs no connection
CliGetConfig ==
    /\ cli.pc = "config"
    /\ LET config == getConfig(env)
       IN  IF config.threw
           THEN /\ cli' = [cli EXCEPT !.pc = "failed", !.error = config.error]
                /\ exitCode' = 1
           ELSE /\ cli' = [cli EXCEPT !.pc = IF cli.cmd = CmdAccounts THEN "done" ELSE "client",
                                      !.accounts = config.value]
                /\ UNCHANGED exitCode
    /\ UNCHANGED <<env, serverApiUrl, pc, parsed, accounts, idx, fetchLayers, jam, accountMap,
                   issued, wire, answered, delivered, served, tools, call, pending, mailbox>>

\* createClient up to its await: the account is chosen, the adapter is
\* installed and the JamClient requests its session
CliCreateClient ==
    /\ cli.pc = "client"
    /\ LET acct == SelectAccount(cli.accounts, cli.account)
       IN  IF acct = 0
           THEN /\ cli' = [cli EXCEPT !.pc = "failed",
                                      !.error = [text |-> "Account not found",
                                                 got |-> cli.account]]
                /\ exitCode' = 1
                /\ UNCHANGED <<fetchLayers, jam, issued, wire>>
           ELSE LET layer == CliLayer(env.JMAP_SESSION_URL, cli.accounts[acct].token)
                    layers == Append(fetchLayers, layer)
                    req == [url |-> env.JMAP_SESSION_URL,
                            authorization |-> Bearer(layer.password), client |-> acct]
                IN  /\ cli' = [cli EXCEPT !.pc = "session", !.acct = acct]
                    /\ fetchLayers' = layers
                    /\ jam' = [client |-> acct, bearerToken |-> layer.password,
                               session |-> NoBody]
                    /\ issued' = req
                    /\ wire' = Outbound(layers, Len(layers), req)
                    /\ UNCHANGED exitCode
    /\ UNCHANGED <<env, serverApiUrl, pc, parsed, accounts, idx, accountMap, answered,
                   delivered, served, tools, call, pending, mailbox>>

\* await jam.getPrimaryAccount() settles and main reaches its switch
CliPrimaryAccount ==
    /\ cli.pc = "session"
    /\ \E resp \in SessionResponses :
         /\ answered' = resp
         /\ delivered' = Inbound(fetchLayers, Len(fetchLayers), env.JMAP_SESSION_URL, resp)
         /\ IF delivered'.failed \/ ~delivered'.json
            THEN /\ cli' = [cli EXCEPT !.pc = "failed",
                                       !.error = [text |-> "session", got |-> <<>>]]
                 /\ exitCode' = 1
                 /\ UNCHANGED jam
            ELSE /\ jam' = [jam EXCEPT !.session = delivered'.body]
                 /\ cli' = IF cli.cmd \in Commands THEN [cli EXCEPT !.pc = "command"]
                           ELSE [cli EXCEPT !.pc = "failed",
                                            !.error = [text |-> "Unknown command",
                                                       got |-> cli.cmd]]
                 /\ exitCode' = IF cli.cmd \in Commands THEN exitCode ELSE 1
    /\ UNCHANGED <<env, serverApiUrl, pc, parsed, accounts, idx, fetchLayers, accountMap,
                   issued, wire, served, tools, call, pending, mailbox>>

NextCli == CliMain \/ CliGetConfig \/ CliCreateClient \/ CliPrimaryAccount

SpecCli == InitCli /\ [][NextCli]_vars

(***************************************************************************)
(* The account createClient chooses, checked under SpecCli.                *)
(***************************************************************************)
\* createClient has chosen an account
CliChosen == cli.acct # 0

\* createClient has failed for want of an account
CliNotFound == cli.pc = "failed" /\ cli.error.text = "Account not found"

\* C26: createClient with an account argument uses the first account whose
\* name equals the argument if there is one, otherwise the first account in
\* configuration order whose name starts with the argument, otherwise it
\* fails with 'Account not found'; without an argument it uses the first
\* configured account.  The client and the adapter are those of the chosen
\* account.
C26_AccountSelection ==
    /\ [][cli.pc = "client" => CliChosen' \/ CliNotFound']_vars
    /\ []((CliChosen \/ CliNotFound)
          => LET as == cli.accounts
                 n == cli.account
                 Equal(i) == as[i].name = n
                 Prefixed(i) == StartsWith(as[i].name, n)
             IN  /\ CliChosen = ~CliNotFound
                 /\ IF n = Undefined
                    THEN IF as = <<>> THEN CliNotFound ELSE cli.acct = 1
                    ELSE IF \E i \in 1..Len(as) : Equal(i)
                    THEN /\ CliChosen
                         /\ Equal(cli.acct)
                         /\ \A j \in 1..(cli.acct - 1) : ~Equal(j)
                    ELSE IF \E i \in 1..Len(as) : Prefixed(i)
                    THEN /\ CliChosen
                         /\ Prefixed(cli.acct)
                         /\ \A j \in 1..(cli.acct - 1) : ~Prefixed(j)
                    ELSE CliNotFound /\ cli.error.got = n
                 /\ CliChosen
                    => /\ jam.client = cli.acct
                       /\ fetchLayers = <<CliLayer(env.JMAP_SESSION_URL,
                                                   cli.accounts[cli.acct].token)>>)

\* the command runs with the account named exactly, which stands after an
\* account whose name merely starts with the argument
C26_Witness ==
    /\ cli.pc = "command"
    /\ cli.acct > 1
    /\ cli.accounts[cli.acct].name = cli.account
    /\ StartsWith(cli.accounts[1].name, cli.account)
    /\ cli.accounts[1].name # cli.account

(***************************************************************************)
(* Overlapping tool calls: a handler runs up to its next await, and the    *)
(* MCP server may start another handler before that await settles.         *)
(***************************************************************************)
\* the tools called with overlap: one with a single await, one with two
OverlappingTools == {"search_emails", "create_draft"}

\* the account arguments of the overlapping calls: none, a name, an unknown
\* name
OverlapRequested == {Undefined, <<"b">>, <<"z">>}

\* the request a handler posts through the client of its session
HandlerRequest(account) ==
    [url |-> account.jam.session.apiUrl,
     authorization |-> Bearer(account.jam.bearerToken),
     client |-> account.jam.client]

\* a handler from its call to its first await, or to its result when it
\* fails before: the account is resolved once and kept in a local constant
Begin(tool, requested, hasBody) ==
    LET got == getAccount(accountMap, requested)
        account == got.value
        refused == IF got.threw THEN got.error
                   ELSE IF Permission(tool, account) # NoError
                   THEN Permission(tool, account)
                   ELSE IF RequiresBody(tool) /\ ~hasBody
                   THEN [text |-> "either textBody or htmlBody must be provided",
                         got |-> <<>>]
                   ELSE IF ~Truthy(account.jam.session.apiUrl) THEN ProtocolError
                   ELSE NoError
    IN  IF refused # NoError
        THEN /\ call' = [tool |-> tool, requested |-> requested, error |-> refused,
                         session |-> 0, methods |-> <<>>, result |-> <<>>]
             /\ served' = served + 1
             /\ UNCHANGED <<pending, issued, wire>>
        ELSE /\ pending' = pending (+) SetToBag({[tool |-> tool, requested |-> requested,
                                                   account |-> account, step |-> 1]})
             /\ issued' = HandlerRequest(account)
             /\ wire' = Outbound(fetchLayers, Len(fetchLayers), HandlerRequest(account))
             /\ UNCHANGED <<served, call>>

\* a handler that moves the sessions of the registry around when it starts
InvokeReordering ==
    /\ pc = "serving"
    /\ BagCardinality(pending) < MaxPending
    /\ served + BagCardinality(pending) < MaxCalls
    /\ \E tool \in OverlappingTools \cap tools, requested \in OverlapRequested,
          hasBody \in BOOLEAN :
         Begin(tool, requested, hasBody)
    /\ accountMap' = [i \in 1..Len(accountMap) |-> accountMap[Len(accountMap) + 1 - i]]
    /\ UNCHANGED <<env, serverApiUrl, pc, parsed, accounts, idx, fetchLayers, jam,
                   answered, delivered, exitCode, tools, mailbox, cli>>

\* the MCP server starts a handler while others wait
Invoke ==
    /\ pc = "serving"
    /\ BagCardinality(pending) < MaxPending
    /\ served + BagCardinality(pending) < MaxCalls
    /\ \E tool \in OverlappingTools \cap tools, requested \in OverlapRequested,
          hasBody \in BOOLEAN :
         Begin(tool, requested, hasBody)
    /\ UNCHANGED <<env, serverApiUrl, pc, parsed, accounts, idx, fetchLayers, jam, accountMap,
                   answered, delivered, exitCode, tools, mailbox, cli>>

\* the await of one waiting handler settles: the handler ends with its
\* result, or posts the next method of its plan and waits again
Settle ==
    /\ pc = "serving"
    /\ \E h \in BagToSet(pending), resp \in ApiResponses, goesOn \in BOOLEAN :
         LET back == Inbound(fetchLayers, Len(fetchLayers), HandlerRequest(h.account).url, resp)
             plan == Plan(h.tool)
             readable == ~back.failed /\ back.json
         IN  /\ answered' = resp
             /\ delivered' = back
             /\ goesOn => h.step < Len(plan) /\ readable
             /\ ~goesOn => h.step = Len(plan) \/ Stops(plan[h.step], back)
             /\ IF goesOn
                THEN /\ pending' = (pending (-) SetToBag({h}))
                                     (+) SetToBag({[h EXCEPT !.step = h.step + 1]})
                     /\ issued' = HandlerRequest(h.account)
                     /\ wire' = Outbound(fetchLayers, Len(fetchLayers),
                                         HandlerRequest(h.account))
                     /\ UNCHANGED <<served, call>>
                ELSE /\ pending' = pending (-) SetToBag({h})
                     /\ served' = served + 1
                     /\ call' = [tool |-> h.tool, requested |-> h.requested,
                                 error |-> IF h.step < Len(plan) \/ ~readable
                                           THEN ProtocolError ELSE NoError,
                                 session |-> h.account.jam.client,
                                 methods |-> SubSeq(plan, 1, h.step),
                                 result |-> <<>>]
                     /\ UNCHANGED <<issued, wire>>
    /\ UNCHANGED <<env, serverApiUrl, pc, parsed, accounts, idx, fetchLayers, jam, accountMap,
                   exitCode, tools, mailbox, cli>>

InitOverlap ==
    /\ Init
    /\ env.JMAP_SESSION_URL = UrlPlain
    /\ env.JMAP_BEARER_TOKENS \in {EntryA, JoinLines(<<EntryA, EntryB>>)}
    /\ serverApiUrl = ApiSecure

NextOverlap ==
    \/ GetJMAPConfig
    \/ CreateJAMClient
    \/ OpenSession
    \/ Register
    \/ BuildServer
    \/ Connect
    \/ Invoke
    \/ Settle

SpecOverlap == InitOverlap /\ [][NextOverlap]_vars

(***************************************************************************)
(* The registry under overlapping calls, checked under SpecOverlap.        *)
(***************************************************************************)
\* what the tools read of a session
Attributes(m) ==
    [i \in 1..Len(m) |-> [name |-> m[i].name, accountId |-> m[i].accountId,
                          isReadOnly |-> m[i].isReadOnly,
                          hasSubmission |-> m[i].hasSubmission]]

\* C21: after start-up no step of any handler, however the handlers
\* overlap, changes the registry: its names, their order and the accountId,
\* isReadOnly and hasSubmission of every session stay as start-up left
\* them, so a resolve of a name gives the same session before and after
\* every step, and the session a waiting handler holds is the one a resolve
\* of its name gives at that moment.
C21_RegistryReadOnly ==
    /\ [][AfterStartup => Attributes(accountMap') = Attributes(accountMap)]_vars
    /\ [][AfterStartup
           => \A r \in Requested : getAccount(accountMap', r) = getAccount(accountMap, r)]_vars
    /\ [](\A h \in BagToSet(pending) :
             getAccount(accountMap, h.requested).value = h.account)

\* two handlers wait at once on different sessions, one of them at its
\* second await
C21_Witness ==
    \E h1 \in BagToSet(pending), h2 \in BagToSet(pending) :
        /\ h1.account.name # h2.account.name
        /\ h1.step = 2
        /\ h2.step = 1
        /\ served = 0

====
